---- MODULE Spec2Model ----
(***************************************************************************)
(* FitReword backend (src/server.js): an express server whose whole state  *)
(* is one JSON document, data.json, read wholesale by readData and         *)
(* rewritten wholesale by writeData in every mutating handler.             *)
(*                                                                         *)
(* Spec     : requests run one after another (each handler is one step).   *)
(* SpecConc : handlers overlap; a handler reads the document and computes  *)
(*            its new document in one step (Begin...), and its writeFile   *)
(*            lands in a later step (Land).                                *)
(*                                                                         *)
(* Further specifications run a part of the routes each, from the same     *)
(* handlers: SpecAuth (the token gate and the user views), SpecTickets     *)
(* (the support conversation), SpecStore (data.json lost or damaged),      *)
(* SpecFail (a writeData call throws), SpecFrame (what a user's request    *)
(* leaves alone) and SpecTranslate (translateItem as a function).          *)
(*                                                                         *)
(* Strings the code transforms (username, email, password) are sequences   *)
(* of one-character strings, so toLowerCase and trim are computed.         *)
(* Optional values (null / undefined in the code) are the empty sequence   *)
(* for objects, -1 for numbers and timestamps, "undefined" for strings.    *)
(***************************************************************************)
EXTENDS Integers, Sequences, FiniteSets, TLC

VARIABLES store,    \* the content of data.json
          now,      \* the clock (Date.now(), new Date())
          nextId,   \* the number of uuids generated so far
          issued,   \* ids of the users a session token was signed for
          writes,   \* the number of writeData calls so far
          prev,     \* the document the last answered request read
          last,     \* the last answered request and its response
          pend,     \* SpecConc: the writes computed but not yet on disk
          landed,   \* SpecConc: the document the last write to land replaced
          disk,     \* whether data.json is there and parses
          budget    \* the writeData calls the run explores

vars == <<store, now, nextId, issued, writes, prev, last, pend, landed, disk,
          budget>>

----------------------------------------------------------------------------
(* Bounds of the model *)

\* the writeData calls of a run of Spec
MaxWrites == 6
\* the writeData calls of a run of SpecConc
MaxConcWrites == 2
\* the writeData calls of a run of SpecAuth
MaxAuthWrites == 3
\* the writeData calls of a run of SpecStore
MaxStoreWrites == 3
\* the writeData calls of a run of SpecTickets
MaxTicketWrites == 4
\* the writeData calls of a run of SpecFail
MaxFailWrites == 3
\* the writeData calls of a run of SpecFrame
MaxFrameWrites == 3

----------------------------------------------------------------------------
(* Strings *)

LowerChar(c) == IF c = "B" THEN "b" ELSE IF c = "X" THEN "x" ELSE c

\* String.prototype.toLowerCase
toLowerCase(s) == [i \in 1..Len(s) |-> LowerChar(s[i])]

RECURSIVE TrimStart(_)
TrimStart(s) == IF s # <<>> /\ Head(s) = " " THEN TrimStart(Tail(s)) ELSE s

RECURSIVE TrimEnd(_)
TrimEnd(s) ==
    IF s # <<>> /\ s[Len(s)] = " " THEN TrimEnd(SubSeq(s, 1, Len(s) - 1)) ELSE s

\* String.prototype.trim
trim(s) == TrimEnd(TrimStart(s))

\* bcrypt.hash(password, 10): the "$2a$10$" header followed by the digest
bcryptHash(p) == <<"$", "2", "a", "$", "1", "0", "$">> \o p

----------------------------------------------------------------------------
(* Request inputs *)

Secret == <<"s", "e", "c", "r", "e", "t">>

\* the bodies POSTed to /api/register
RegisterBodies ==
    { [username |-> <<"b">>, email |-> <<"x">>, password |-> Secret],
      [username |-> <<"a">>, email |-> <<"y">>, password |-> Secret],
      [username |-> <<"B", " ">>, email |-> <<"y">>, password |-> Secret],
      [username |-> <<>>, email |-> <<"x">>, password |-> Secret],
      [username |-> <<"a">>, email |-> <<"y">>, password |-> <<"p", "w">>] }

Reasons == {"blurry"}
Files == {"img1"}

\* the readings of the clock
Times == {0, 1}

\* Reference data of data.json: the server has no operation that changes it
Challenges ==
    << [id |-> "c1", name |-> [ar |-> "ar-c1", en |-> "en-c1"], reward |-> 1],
       [id |-> "c2", name |-> [ar |-> "ar-c2", en |-> "en-c2"], reward |-> 2] >>

Rewards ==
    << [id |-> "r1", name |-> [ar |-> "ar-r1", en |-> "en-r1"], cost |-> 2] >>

ChallengeIds == {"c1", "c2", "cX"}
RewardIds == {"r1", "rX"}

NoToken == [kind |-> "none", id |-> 0]
BadToken == [kind |-> "bad", id |-> 0]
\* the tokens the server signed
Tokens == {[kind |-> "ok", id |-> i] : i \in issued}

----------------------------------------------------------------------------
(* Array helpers *)

\* Array.prototype.findIndex, 1-based, over the set of the indices whose
\* element passes the test: the first of them; 0 stands for -1
FindIndex(matching) ==
    IF matching = {} THEN 0
    ELSE CHOOSE i \in matching : \A j \in matching : i <= j

\* Array.prototype.filter with the test (x => x.userId === userId)
RECURSIVE FilterUserId(_, _)
FilterUserId(s, userId) ==
    IF s = <<>> THEN <<>>
    ELSE (IF Head(s).userId = userId THEN <<Head(s)>> ELSE <<>>)
         \o FilterUserId(Tail(s), userId)

----------------------------------------------------------------------------
(* Responses *)

\* A handler's outcome: whether it called readData, whether it called
\* writeData and with which document, and the response.

\* a return before readData is called: the token gate, a body refused
Refuse(d, code, msg) ==
    [read |-> FALSE, write |-> FALSE, doc |-> d, status |-> code, msg |-> msg,
     body |-> <<>>]

\* an early return: res.status(code).json({message}), nothing written
Fail(d, code, msg) ==
    [read |-> TRUE, write |-> FALSE, doc |-> d, status |-> code, msg |-> msg,
     body |-> <<>>]

\* await writeData(data); res.json(...)
Done(d, code, msg, body) ==
    [read |-> TRUE, write |-> TRUE, doc |-> d, status |-> code, msg |-> msg,
     body |-> body]

\* res.json(body) with nothing written
Json(d, body) ==
    [read |-> TRUE, write |-> FALSE, doc |-> d, status |-> 200, msg |-> "ok",
     body |-> body]

\* authenticateToken without jwt.verify: any token there is passes
authenticateToken_Unverified(tok) ==
    IF tok.kind = "none" THEN 401 ELSE 200

\* authenticateToken: 401 when the request has no token, 403 when jwt.verify
\* rejects it (forged, altered, expired), next() otherwise (200 here)
authenticateToken(tok) ==
    IF tok.kind = "none" THEN 401 ELSE IF tok.kind = "bad" THEN 403 ELSE 200

----------------------------------------------------------------------------
(* Handlers: the response and the document a request computes from the     *)
(* document d it read, the time t and (where it makes one) the uuid id     *)

UserIndex(d, uid) == FindIndex({i \in 1..Len(d.users) : d.users[i].id = uid})

\* POST /api/register
registerHandler(d, username, email, password, id) ==
    IF username = <<>> \/ email = <<>> \/ password = <<>>
    THEN Refuse(d, 400, "allFieldsRequired")
    ELSE IF Len(password) < 6
    THEN Refuse(d, 400, "passwordTooShort")
    ELSE IF FindIndex({i \in 1..Len(d.users) :
                \/ toLowerCase(d.users[i].username) = toLowerCase(username)
                \/ toLowerCase(d.users[i].email) = toLowerCase(email)}) # 0
    THEN Fail(d, 409, "alreadyExists")
    ELSE LET newUser == [id |-> id,
                         username |-> trim(username),
                         email |-> toLowerCase(trim(email)),
                         password |-> bcryptHash(password),
                         points |-> 0,
                         profilePictureUrl |-> "undefined",
                         bio |-> "undefined",
                         activeChallenge |-> <<>>,
                         completedChallenges |-> <<>>,
                         redeemedRewards |-> <<>>]
             userToReturn == [f \in (DOMAIN newUser) \ {"password"} |-> newUser[f]]
         IN Done([d EXCEPT !.users = Append(@, newUser)], 201, "created",
                 <<[user |-> userToReturn, token |-> [kind |-> "ok", id |-> id]]>>)

\* startHandler without the test of activeChallenge
startHandler_Overwrite(d, tok, challengeId, t) ==
    LET userIndex == UserIndex(d, tok.id)
        challengeIndex == FindIndex({i \in 1..Len(d.challenges) : d.challenges[i].id = challengeId})
    IN IF authenticateToken(tok) # 200
       THEN Refuse(d, authenticateToken(tok), "sendStatus")
       ELSE IF userIndex = 0
       THEN Fail(d, 404, "userNotFound")
       ELSE IF challengeIndex = 0
       THEN Fail(d, 404, "challengeNotFound")
       ELSE LET challenge == d.challenges[challengeIndex]
                active == [id |-> challenge.id, name |-> challenge.name,
                           reward |-> challenge.reward, startedAt |-> t]
            IN Done([d EXCEPT !.users[userIndex].activeChallenge = <<active>>],
                    200, "started", <<>>)

\* POST /api/challenges/:challengeId/start
startHandler(d, tok, challengeId, t) ==
    LET userIndex == UserIndex(d, tok.id)
        challengeIndex == FindIndex({i \in 1..Len(d.challenges) : d.challenges[i].id = challengeId})
    IN IF authenticateToken(tok) # 200
       THEN Refuse(d, authenticateToken(tok), "sendStatus")
       ELSE IF userIndex = 0
       THEN Fail(d, 404, "userNotFound")
       ELSE IF challengeIndex = 0
       THEN Fail(d, 404, "challengeNotFound")
       ELSE IF d.users[userIndex].activeChallenge # <<>>
       THEN Fail(d, 400, "alreadyActive")
       ELSE LET challenge == d.challenges[challengeIndex]
                active == [id |-> challenge.id, name |-> challenge.name,
                           reward |-> challenge.reward, startedAt |-> t]
            IN Done([d EXCEPT !.users[userIndex].activeChallenge = <<active>>],
                    200, "started", <<>>)

\* cancelHandler without the test of activeChallenge
cancelHandler_NoCheck(d, tok) ==
    LET userIndex == UserIndex(d, tok.id)
    IN IF authenticateToken(tok) # 200
       THEN Refuse(d, authenticateToken(tok), "sendStatus")
       ELSE IF userIndex = 0
       THEN Fail(d, 404, "userNotFound")
       ELSE Done([d EXCEPT !.users[userIndex].activeChallenge = <<>>],
                 200, "cancelled", <<>>)

\* POST /api/challenges/cancel
cancelHandler(d, tok) ==
    LET userIndex == UserIndex(d, tok.id)
    IN IF authenticateToken(tok) # 200
       THEN Refuse(d, authenticateToken(tok), "sendStatus")
       ELSE IF userIndex = 0
       THEN Fail(d, 404, "userNotFound")
       ELSE IF d.users[userIndex].activeChallenge = <<>>
       THEN Fail(d, 400, "noActive")
       ELSE Done([d EXCEPT !.users[userIndex].activeChallenge = <<>>],
                 200, "cancelled", <<>>)

\* submitHandler forgetting to clear activeChallenge
submitHandler_KeepsSlot(d, tok, file, t, id) ==
    LET userIndex == UserIndex(d, tok.id)
    IN IF authenticateToken(tok) # 200
       THEN Refuse(d, authenticateToken(tok), "sendStatus")
       ELSE IF file = <<>>
       THEN Refuse(d, 400, "proofRequired")
       ELSE IF userIndex = 0
       THEN Fail(d, 404, "userNotFound")
       ELSE IF d.users[userIndex].activeChallenge = <<>>
       THEN Fail(d, 400, "noActive")
       ELSE LET user == d.users[userIndex]
                submission == [id |-> id,
                               userId |-> user.id,
                               username |-> user.username,
                               challengeName |-> user.activeChallenge[1].name.ar,
                               challenge |-> user.activeChallenge[1],
                               imageUrl |-> file[1],
                               status |-> "pending",
                               submittedAt |-> t,
                               processedAt |-> -1,
                               pointsAwarded |-> -1,
                               rejectionReason |-> "undefined"]
            IN Done([d EXCEPT !.submissions = Append(@, submission)],
                    200, "submitted", <<submission>>)

\* POST /api/challenges/submit; file is <<>> when no image was uploaded
submitHandler(d, tok, file, t, id) ==
    LET userIndex == UserIndex(d, tok.id)
    IN IF authenticateToken(tok) # 200
       THEN Refuse(d, authenticateToken(tok), "sendStatus")
       ELSE IF file = <<>>
       THEN Refuse(d, 400, "proofRequired")
       ELSE IF userIndex = 0
       THEN Fail(d, 404, "userNotFound")
       ELSE IF d.users[userIndex].activeChallenge = <<>>
       THEN Fail(d, 400, "noActive")
       ELSE LET user == d.users[userIndex]
                submission == [id |-> id,
                               userId |-> user.id,
                               username |-> user.username,
                               challengeName |-> user.activeChallenge[1].name.ar,
                               challenge |-> user.activeChallenge[1],
                               imageUrl |-> file[1],
                               status |-> "pending",
                               submittedAt |-> t,
                               processedAt |-> -1,
                               pointsAwarded |-> -1,
                               rejectionReason |-> "undefined"]
            IN Done([d EXCEPT !.submissions = Append(@, submission),
                              !.users[userIndex].activeChallenge = <<>>],
                    200, "submitted", <<submission>>)

\* redeemHandler without the test user.points < reward.cost
redeemHandler_NoBalanceCheck(d, tok, rewardId, t) ==
    LET userIndex == UserIndex(d, tok.id)
        rewardIndex == FindIndex({i \in 1..Len(d.rewards) : d.rewards[i].id = rewardId})
    IN IF authenticateToken(tok) # 200
       THEN Refuse(d, authenticateToken(tok), "sendStatus")
       ELSE IF userIndex = 0
       THEN Fail(d, 404, "userNotFound")
       ELSE IF rewardIndex = 0
       THEN Fail(d, 404, "rewardNotFound")
       ELSE LET user == d.users[userIndex]
                reward == d.rewards[rewardIndex]
                qrCodeData == <<"REWARD", rewardId, "USER", user.id, t>>
                redemption == [id |-> rewardId, date |-> t,
                               qrCodeData |-> qrCodeData]
                newDoc == [d EXCEPT
                             !.users[userIndex].points = @ - reward.cost,
                             !.users[userIndex].redeemedRewards =
                                 Append(@, redemption)]
            IN Done(newDoc, 200, "redeemed",
                    <<[qrCode |-> qrCodeData,
                       remainingPoints |-> newDoc.users[userIndex].points]>>)

\* redeemHandler answering with the balance it read
redeemHandler_StaleBalance(d, tok, rewardId, t) ==
    LET userIndex == UserIndex(d, tok.id)
        rewardIndex == FindIndex({i \in 1..Len(d.rewards) : d.rewards[i].id = rewardId})
    IN IF authenticateToken(tok) # 200
       THEN Refuse(d, authenticateToken(tok), "sendStatus")
       ELSE IF userIndex = 0
       THEN Fail(d, 404, "userNotFound")
       ELSE IF rewardIndex = 0
       THEN Fail(d, 404, "rewardNotFound")
       ELSE IF d.users[userIndex].points < d.rewards[rewardIndex].cost
       THEN Fail(d, 400, "insufficientPoints")
       ELSE LET user == d.users[userIndex]
                reward == d.rewards[rewardIndex]
                qrCodeData == <<"REWARD", rewardId, "USER", user.id, t>>
                redemption == [id |-> rewardId, date |-> t,
                               qrCodeData |-> qrCodeData]
                newDoc == [d EXCEPT
                             !.users[userIndex].points = @ - reward.cost,
                             !.users[userIndex].redeemedRewards =
                                 Append(@, redemption)]
            IN Done(newDoc, 200, "redeemed",
                    <<[qrCode |-> qrCodeData,
                       remainingPoints |-> user.points]>>)

\* POST /api/rewards/:rewardId/redeem
redeemHandler(d, tok, rewardId, t) ==
    LET userIndex == UserIndex(d, tok.id)
        rewardIndex == FindIndex({i \in 1..Len(d.rewards) : d.rewards[i].id = rewardId})
    IN IF authenticateToken(tok) # 200
       THEN Refuse(d, authenticateToken(tok), "sendStatus")
       ELSE IF userIndex = 0
       THEN Fail(d, 404, "userNotFound")
       ELSE IF rewardIndex = 0
       THEN Fail(d, 404, "rewardNotFound")
       ELSE IF d.users[userIndex].points < d.rewards[rewardIndex].cost
       THEN Fail(d, 400, "insufficientPoints")
       ELSE LET user == d.users[userIndex]
                reward == d.rewards[rewardIndex]
                qrCodeData == <<"REWARD", rewardId, "USER", user.id, t>>
                redemption == [id |-> rewardId, date |-> t,
                               qrCodeData |-> qrCodeData]
                newDoc == [d EXCEPT
                             !.users[userIndex].points = @ - reward.cost,
                             !.users[userIndex].redeemedRewards =
                                 Append(@, redemption)]
            IN Done(newDoc, 200, "redeemed",
                    <<[qrCode |-> qrCodeData,
                       remainingPoints |-> newDoc.users[userIndex].points]>>)

\* approveHandler forgetting completedChallenges.push
approveHandler_NoCompleted(d, id, t) ==
    LET submissionIndex == FindIndex({i \in 1..Len(d.submissions) : d.submissions[i].id = id})
    IN IF submissionIndex = 0
       THEN Fail(d, 404, "submissionNotFound")
       ELSE LET submission == d.submissions[submissionIndex]
                userIndex == UserIndex(d, submission.userId)
                credited ==
                    IF userIndex # 0
                    THEN [d EXCEPT
                            !.users[userIndex].points =
                                @ + submission.challenge.reward]
                    ELSE d
            IN Done([credited EXCEPT
                       !.submissions[submissionIndex].status = "approved",
                       !.submissions[submissionIndex].processedAt = t,
                       !.submissions[submissionIndex].pointsAwarded =
                           submission.challenge.reward],
                    200, "approved", <<>>)

\* POST /api/admin/submissions/:id/approve
approveHandler(d, id, t) ==
    LET submissionIndex == FindIndex({i \in 1..Len(d.submissions) : d.submissions[i].id = id})
    IN IF submissionIndex = 0
       THEN Fail(d, 404, "submissionNotFound")
       ELSE LET submission == d.submissions[submissionIndex]
                userIndex == UserIndex(d, submission.userId)
                credited ==
                    IF userIndex # 0
                    THEN [d EXCEPT
                            !.users[userIndex].points =
                                @ + submission.challenge.reward,
                            !.users[userIndex].completedChallenges =
                                Append(@, submission.challenge.id)]
                    ELSE d
            IN Done([credited EXCEPT
                       !.submissions[submissionIndex].status = "approved",
                       !.submissions[submissionIndex].processedAt = t,
                       !.submissions[submissionIndex].pointsAwarded =
                           submission.challenge.reward],
                    200, "approved", <<>>)

\* POST /api/admin/submissions/:id/reject
rejectHandler(d, id, reason) ==
    LET submissionIndex == FindIndex({i \in 1..Len(d.submissions) : d.submissions[i].id = id})
    IN IF submissionIndex = 0
       THEN Fail(d, 404, "submissionNotFound")
       ELSE Done([d EXCEPT
                    !.submissions[submissionIndex].status = "rejected",
                    !.submissions[submissionIndex].rejectionReason = reason],
                 200, "rejected", <<>>)

----------------------------------------------------------------------------
(* The account routes: login and the views of a user.  A request header or  *)
(* body field that may be absent is <<>> when absent and <<value>> when     *)
(* present.                                                                 *)

\* the Accept-Language headers of the requests
Langs == {<<>>, <<<<"e", "n">>>>}

\* the bodies POSTed to /api/login
LoginBodies ==
    { [username |-> <<"b">>, password |-> <<Secret>>],
      [username |-> <<"B">>, password |-> <<Secret>>],
      [username |-> <<"b">>, password |-> <<<<"p", "w">>>>],
      [username |-> <<"b">>, password |-> <<>>],
      [username |-> <<"z">>, password |-> <<Secret>>],
      [username |-> <<"z">>, password |-> <<>>] }

\* translateItem's choice of language: lang && lang.startsWith('en')
targetLang(lang) ==
    IF lang # <<>> /\ Len(lang[1]) >= 2 /\ SubSeq(lang[1], 1, 2) = <<"e", "n">>
    THEN "en" ELSE "ar"

\* bcrypt.compare(password, hash)
bcryptCompare(p, h) == h = bcryptHash(p)

\* translateItem on a challenge of the document, where name is the one
\* field that holds an object with a key ar (translateItem itself, on any
\* item, is in the section of SpecTranslate)
translateChallenge(item, lang) ==
    [item EXCEPT !.name = IF targetLang(lang) = "en" THEN @.en ELSE @.ar]

\* translateContent: items.map(item => translateItem(item, lang))
translateContent(items, lang) ==
    [i \in 1..Len(items) |-> translateChallenge(items[i], lang)]

\* translateUserObject: translateItem applied to the activeChallenge
translateUserObject(user, lang) ==
    IF user.activeChallenge = <<>> THEN user
    ELSE [user EXCEPT !.activeChallenge =
             <<translateChallenge(user.activeChallenge[1], lang)>>]

\* GET /api/challenges
challengesHandler(d, lang) == Json(d, translateContent(d.challenges, lang))

\* const { password: _, ...userFromDb } = user
WithoutPassword(user) == [f \in (DOMAIN user) \ {"password"} |-> user[f]]

\* loginHandler answering the unknown username with a message of its own
loginHandler_Leaks(d, username, password, lang) ==
    LET userIndex == FindIndex({i \in 1..Len(d.users) :
                        toLowerCase(d.users[i].username) = toLowerCase(username)})
    IN IF userIndex = 0
       THEN Fail(d, 404, "userNotFound")
       ELSE IF password = <<>>
       THEN Fail(d, 500, "serverError")
       ELSE IF ~bcryptCompare(password[1], d.users[userIndex].password)
       THEN Fail(d, 401, "badCredentials")
       ELSE Json(d, <<[user |-> translateUserObject(
                                   WithoutPassword(d.users[userIndex]), lang),
                       token |-> [kind |-> "ok", id |-> d.users[userIndex].id]]>>)

\* POST /api/login; bcrypt.compare throws when the body has no password,
\* and the catch answers 500
loginHandler(d, username, password, lang) ==
    LET userIndex == FindIndex({i \in 1..Len(d.users) :
                        toLowerCase(d.users[i].username) = toLowerCase(username)})
    IN IF userIndex = 0
       THEN Fail(d, 401, "badCredentials")
       ELSE IF password = <<>>
       THEN Fail(d, 500, "serverError")
       ELSE IF ~bcryptCompare(password[1], d.users[userIndex].password)
       THEN Fail(d, 401, "badCredentials")
       ELSE Json(d, <<[user |-> translateUserObject(
                                   WithoutPassword(d.users[userIndex]), lang),
                       token |-> [kind |-> "ok", id |-> d.users[userIndex].id]]>>)

\* getUserHandler answering with the stored record
getUserHandler_WithPassword(d, tok, lang) ==
    LET userIndex == UserIndex(d, tok.id)
    IN IF authenticateToken(tok) # 200
       THEN Refuse(d, authenticateToken(tok), "sendStatus")
       ELSE IF userIndex = 0
       THEN Fail(d, 404, "userNotFound")
       ELSE Json(d, <<translateUserObject(d.users[userIndex], lang)>>)

\* GET /api/user
getUserHandler(d, tok, lang) ==
    LET userIndex == UserIndex(d, tok.id)
    IN IF authenticateToken(tok) # 200
       THEN Refuse(d, authenticateToken(tok), "sendStatus")
       ELSE IF userIndex = 0
       THEN Fail(d, 404, "userNotFound")
       ELSE Json(d, <<translateUserObject(
                         WithoutPassword(d.users[userIndex]), lang)>>)

\* the bio fields of the bodies PUT to /api/user/profile
Bios == {<<>>, <<"hello">>}

\* updateProfileHandler storing the bio in the first record of data.users
updateProfileHandler_FirstRecord(d, tok, bio) ==
    LET userIndex == UserIndex(d, tok.id)
        data == IF bio # <<>>
                THEN [d EXCEPT !.users[1].bio = bio[1]]
                ELSE d
    IN IF authenticateToken(tok) # 200
       THEN Refuse(d, authenticateToken(tok), "sendStatus")
       ELSE IF userIndex = 0
       THEN Fail(d, 404, "userNotFound")
       ELSE Done(data, 200, "ok", <<WithoutPassword(data.users[userIndex])>>)

\* PUT /api/user/profile: the bio is stored when the body has one, and
\* writeData is called either way
updateProfileHandler(d, tok, bio) ==
    LET userIndex == UserIndex(d, tok.id)
        data == IF bio # <<>>
                THEN [d EXCEPT !.users[userIndex].bio = bio[1]]
                ELSE d
    IN IF authenticateToken(tok) # 200
       THEN Refuse(d, authenticateToken(tok), "sendStatus")
       ELSE IF userIndex = 0
       THEN Fail(d, 404, "userNotFound")
       ELSE Done(data, 200, "ok", <<WithoutPassword(data.users[userIndex])>>)

\* GET /api/admin/users
adminUsersHandler(d) ==
    Json(d, [i \in 1..Len(d.users) |->
               [f \in (DOMAIN d.users[i] \ {"password"}) \cup {"unreadMessages"} |->
                  IF f = "unreadMessages"
                  THEN Cardinality({j \in 1..Len(d.supportTickets) :
                          /\ d.supportTickets[j].userId = d.users[i].id
                          /\ d.supportTickets[j].status = "unread"
                          /\ d.supportTickets[j].sender = "user"})
                  ELSE d.users[i][f]]])

\* GET /api/admin/users/:userId
adminUserHandler(d, userId) ==
    LET userIndex == UserIndex(d, userId)
    IN IF userIndex = 0
       THEN Fail(d, 404, "userNotFound")
       ELSE Json(d, <<[f \in (DOMAIN d.users[userIndex] \ {"password"})
                              \cup {"submissions"} |->
                         IF f = "submissions"
                         THEN FilterUserId(d.submissions, userId)
                         ELSE d.users[userIndex][f]]>>)

----------------------------------------------------------------------------
(* The support conversation: the tickets of data.supportTickets *)

\* the message fields of the bodies POSTed to /api/support and to
\* /api/admin/tickets/reply
Messages == {<<>>, <<<<" ">>>>, <<<<"h", "i", " ">>>>}

\* one step of the sort: x goes behind the tickets created no later than it
RECURSIVE InsertByCreatedAt(_, _)
InsertByCreatedAt(sorted, x) ==
    IF sorted = <<>> THEN <<x>>
    ELSE IF sorted[Len(sorted)].createdAt <= x.createdAt
    THEN Append(sorted, x)
    ELSE Append(InsertByCreatedAt(SubSeq(sorted, 1, Len(sorted) - 1), x),
                sorted[Len(sorted)])

\* Array.prototype.sort((a, b) => new Date(a.createdAt) - new Date(b.createdAt)),
\* a stable sort
RECURSIVE SortByCreatedAt(_)
SortByCreatedAt(s) ==
    IF s = <<>> THEN <<>>
    ELSE InsertByCreatedAt(SortByCreatedAt(SubSeq(s, 1, Len(s) - 1)), s[Len(s)])

\* a sort from the newest ticket to the oldest
RECURSIVE SortByCreatedAt_Descending(_)
SortByCreatedAt_Descending(s) ==
    IF s = <<>> THEN <<>>
    ELSE LET rest == SortByCreatedAt_Descending(Tail(s))
             later == {i \in 1..Len(rest) : rest[i].createdAt > Head(s).createdAt}
         IN SubSeq(rest, 1, Cardinality(later)) \o <<Head(s)>>
            \o SubSeq(rest, Cardinality(later) + 1, Len(rest))

\* POST /api/support
supportHandler(d, tok, message, t, id) ==
    LET userIndex == UserIndex(d, tok.id)
    IN IF authenticateToken(tok) # 200
       THEN Refuse(d, authenticateToken(tok), "sendStatus")
       ELSE IF message = <<>> \/ trim(message[1]) = <<>>
       THEN Refuse(d, 400, "messageRequired")
       ELSE IF userIndex = 0
       THEN Fail(d, 404, "userNotFound")
       ELSE LET ticket == [id |-> id,
                           userId |-> d.users[userIndex].id,
                           username |-> d.users[userIndex].username,
                           message |-> trim(message[1]),
                           sender |-> "user",
                           status |-> "unread",
                           createdAt |-> t]
            IN Done([d EXCEPT !.supportTickets = Append(@, ticket)],
                    200, "sent", <<[ticket |-> ticket]>>)

\* POST /api/admin/tickets/reply
replyHandler(d, userId, message, t, id) ==
    LET userIndex == UserIndex(d, userId)
    IN IF message = <<>> \/ trim(message[1]) = <<>>
       THEN Refuse(d, 400, "messageRequired")
       ELSE IF userIndex = 0
       THEN Fail(d, 404, "userNotFound")
       ELSE LET replyTicket == [id |-> id,
                                userId |-> userId,
                                username |-> <<"A", "d", "m", "i", "n">>,
                                message |-> trim(message[1]),
                                sender |-> "admin",
                                status |-> "read",
                                createdAt |-> t]
            IN Done([d EXCEPT !.supportTickets = Append(@, replyTicket)],
                    200, "replySent", <<>>)

\* ticketIds.forEach: the first ticket with the id, if there is one, is read
RECURSIVE MarkEach(_, _)
MarkEach(tickets, ticketIds) ==
    IF ticketIds = <<>> THEN tickets
    ELSE LET ticketIndex == FindIndex({i \in 1..Len(tickets) :
                                          tickets[i].id = Head(ticketIds)})
         IN MarkEach(IF ticketIndex # 0
                     THEN [tickets EXCEPT ![ticketIndex].status = "read"]
                     ELSE tickets,
                     Tail(ticketIds))

\* markReadHandler marking the ticket of the first id only
markReadHandler_FirstOnly(d, ticketIds) ==
    IF ticketIds = <<>>
    THEN Fail(d, 500, "serverError")
    ELSE Done([d EXCEPT !.supportTickets = MarkEach(@, SubSeq(ticketIds[1], 1, 1))],
              200, "marked", <<>>)

\* POST /api/admin/tickets/read; ticketIds.forEach throws when the body has
\* no ticketIds, and the catch answers 500
markReadHandler(d, ticketIds) ==
    IF ticketIds = <<>>
    THEN Fail(d, 500, "serverError")
    ELSE Done([d EXCEPT !.supportTickets = MarkEach(@, ticketIds[1])],
              200, "marked", <<>>)

\* ticketsHandler with the sort the other way round
ticketsHandler_Descending(d, userId) ==
    Json(d, SortByCreatedAt_Descending(FilterUserId(d.supportTickets, userId)))

\* GET /api/admin/tickets/user/:userId
ticketsHandler(d, userId) ==
    Json(d, SortByCreatedAt(FilterUserId(d.supportTickets, userId)))

----------------------------------------------------------------------------
(* State *)

\* data.json as deployed: the reference data, nobody registered yet
InitialData ==
    [users |-> <<>>, challenges |-> Challenges, rewards |-> Rewards,
     faq |-> <<>>, submissions |-> <<>>, supportTickets |-> <<>>]

\* the document readData creates when data.json is missing or does not parse
defaultData ==
    [users |-> <<>>, challenges |-> <<>>, rewards |-> <<>>,
     faq |-> <<>>, submissions |-> <<>>, supportTickets |-> <<>>]

\* readData without the writeData of its catch branch
readData_NoPersist ==
    IF disk = "ok" THEN [doc |-> store, write |-> FALSE]
    ELSE [doc |-> defaultData, write |-> FALSE]

\* readData: the parsed file, or, when readFile or JSON.parse throws, the
\* default document, written to the file before it is returned
readData ==
    IF disk = "ok" THEN [doc |-> store, write |-> FALSE]
    ELSE [doc |-> defaultData, write |-> TRUE]

\* const data = await readData(), the first statement of every handler
Loaded == readData.doc

NoRequest ==
    [op |-> "none", tok |-> NoToken, arg |-> <<>>, at |-> 0, read |-> FALSE,
     found |-> "ok", wrote |-> 0, status |-> 0, msg |-> "none", body |-> <<>>]

Slots == {1, 2}

Init ==
    /\ store = InitialData
    /\ now = 0
    /\ nextId = 0
    /\ issued = {}
    /\ writes = 0
    /\ prev = InitialData
    /\ last = NoRequest
    /\ pend = [s \in Slots |-> <<>>]
    /\ landed = <<>>
    /\ disk = "ok"
    /\ budget = MaxWrites

\* a request, the time its handler ran, the state readData found the file
\* in, the number of writeData calls it made, and the response it got
Response(op, tok, arg, t, found, wrote, r) ==
    [op |-> op, tok |-> tok, arg |-> arg, at |-> t, read |-> r.read,
     found |-> found, wrote |-> wrote, status |-> r.status, msg |-> r.msg, body |-> r.body]

\* the writeData calls of a request: the one of readData, the handler's own
WriteCalls(r) ==
    (IF r.read /\ readData.write THEN 1 ELSE 0) + (IF r.write THEN 1 ELSE 0)

\* jwt.sign in register and in login: the token of the user in the response
Signed(op, r) ==
    IF (op = "register" /\ r.write) \/ (op = "login" /\ r.status = 200)
    THEN {r.body[1].token.id} ELSE {}

\* uuidv4 is called on the success path of register, of submit, of support
\* and of reply only
Uuids(op, r) ==
    IF op \in {"register", "submit", "support", "reply"} /\ r.write THEN 1 ELSE 0

\* a whole handler in one step: readData, the handler body, writeData, res
Serve(op, tok, arg, r) ==
    /\ last' = Response(op, tok, arg, now, disk, WriteCalls(r), r)
    /\ writes' = writes + WriteCalls(r)
    /\ writes' <= budget
    /\ prev' = IF r.read THEN Loaded ELSE store
    /\ store' = IF r.write THEN r.doc ELSE IF r.read THEN Loaded ELSE store
    /\ disk' = IF WriteCalls(r) > 0 THEN "ok" ELSE disk
    /\ issued' = issued \cup Signed(op, r)
    /\ nextId' = nextId + Uuids(op, r)
    /\ UNCHANGED <<now, pend, landed, budget>>

SubmissionIds == {store.submissions[i].id : i \in 1..Len(store.submissions)} \cup {0}

Register(username, email, password) ==
    Serve("register", NoToken,
          [username |-> username, email |-> email, password |-> password],
          registerHandler(Loaded, username, email, password, nextId + 1))

Start(tok, challengeId) ==
    Serve("start", tok, challengeId, startHandler(Loaded, tok, challengeId, now))

Cancel(tok) ==
    Serve("cancel", tok, <<>>, cancelHandler(Loaded, tok))

Submit(tok, file) ==
    Serve("submit", tok, file, submitHandler(Loaded, tok, file, now, nextId + 1))

Redeem(tok, rewardId) ==
    Serve("redeem", tok, rewardId, redeemHandler(Loaded, tok, rewardId, now))

Approve(id) ==
    Serve("approve", NoToken, id, approveHandler(Loaded, id, now))

Reject(id, reason) ==
    Serve("reject", NoToken, [id |-> id, reason |-> reason],
          rejectHandler(Loaded, id, reason))

\* time passes between two requests
Tick ==
    /\ now + 1 \in Times
    /\ now' = now + 1
    /\ UNCHANGED <<store, nextId, issued, writes, prev, last, pend, landed,
                   disk, budget>>

Next ==
    \/ \E b \in RegisterBodies : Register(b.username, b.email, b.password)
    \/ \E tok \in Tokens, c \in ChallengeIds : Start(tok, c)
    \/ \E tok \in Tokens : Cancel(tok)
    \/ \E tok \in Tokens, f \in {<<>>} \cup {<<x>> : x \in Files} : Submit(tok, f)
    \/ \E tok \in Tokens, r \in RewardIds : Redeem(tok, r)
    \/ \E id \in SubmissionIds : Approve(id)
    \/ \E id \in SubmissionIds, reason \in Reasons : Reject(id, reason)
    \/ Tick

Spec == Init /\ [][Next]_vars

----------------------------------------------------------------------------
(* Overlapping requests.  A handler runs from its readData to its call of  *)
(* writeData without yielding, so the document it writes is computed from  *)
(* the document it read; fs.writeFile replaces the file some time later,   *)
(* after which the response is sent.  An early return answers at once.     *)
(* The requests overlap within one reading of the clock.                   *)

Begin(slot, op, tok, arg, r) ==
    /\ pend[slot] = <<>>
    /\ IF r.write
       THEN /\ writes < budget
            /\ writes' = writes + 1
            /\ nextId' = nextId + Uuids(op, r)
            /\ pend' = [pend EXCEPT ![slot] =
                          <<[op |-> op, tok |-> tok, arg |-> arg,
                             at |-> now, found |-> disk, read |-> Loaded,
                             r |-> r]>>]
            /\ UNCHANGED <<store, now, issued, prev, last>>
       ELSE /\ prev' = IF r.read THEN Loaded ELSE store
            /\ last' = Response(op, tok, arg, now, disk, WriteCalls(r), r)
            /\ UNCHANGED <<store, now, nextId, issued, writes, pend>>
    /\ UNCHANGED <<landed, disk, budget>>

BeginRegister(slot, username, email, password) ==
    Begin(slot, "register", NoToken,
          [username |-> username, email |-> email, password |-> password],
          registerHandler(Loaded, username, email, password, nextId + 1))

BeginStart(slot, tok, challengeId) ==
    Begin(slot, "start", tok, challengeId,
          startHandler(Loaded, tok, challengeId, now))

BeginCancel(slot, tok) ==
    Begin(slot, "cancel", tok, <<>>, cancelHandler(Loaded, tok))

BeginSubmit(slot, tok, file) ==
    Begin(slot, "submit", tok, file,
          submitHandler(Loaded, tok, file, now, nextId + 1))

BeginRedeem(slot, tok, rewardId) ==
    Begin(slot, "redeem", tok, rewardId, redeemHandler(Loaded, tok, rewardId, now))

BeginApprove(slot, id) ==
    Begin(slot, "approve", NoToken, id, approveHandler(Loaded, id, now))

BeginReject(slot, id, reason) ==
    Begin(slot, "reject", NoToken, [id |-> id, reason |-> reason],
          rejectHandler(Loaded, id, reason))

\* a writeFile that gives way when the file is no longer the one the handler
\* read: the request is answered 409 and the file is left alone
Land_Versioned(slot) ==
    /\ pend[slot] # <<>>
    /\ LET p == pend[slot][1]
           r == IF store = p.read THEN p.r ELSE Fail(store, 409, "conflict")
       IN /\ store' = r.doc
          /\ prev' = p.read
          /\ last' = Response(p.op, p.tok, p.arg, p.at, p.found, 1, r)
          /\ issued' = issued \cup Signed(p.op, r)
          /\ landed' = <<store>>
    /\ pend' = [pend EXCEPT ![slot] = <<>>]
    /\ UNCHANGED <<now, nextId, writes, disk, budget>>

\* fs.writeFile completes: the whole file is replaced, the response is sent;
\* landed keeps the document that was replaced
Land(slot) ==
    /\ pend[slot] # <<>>
    /\ LET p == pend[slot][1]
       IN /\ store' = p.r.doc
          /\ prev' = p.read
          /\ last' = Response(p.op, p.tok, p.arg, p.at, p.found, 1, p.r)
          /\ issued' = issued \cup Signed(p.op, p.r)
          /\ landed' = <<store>>
    /\ pend' = [pend EXCEPT ![slot] = <<>>]
    /\ UNCHANGED <<now, nextId, writes, disk, budget>>

NextConc ==
    \/ \E s \in Slots, b \in RegisterBodies :
          BeginRegister(s, b.username, b.email, b.password)
    \/ \E s \in Slots, tok \in Tokens, c \in ChallengeIds : BeginStart(s, tok, c)
    \/ \E s \in Slots, tok \in Tokens : BeginCancel(s, tok)
    \/ \E s \in Slots, tok \in Tokens, f \in {<<>>} \cup {<<x>> : x \in Files} :
          BeginSubmit(s, tok, f)
    \/ \E s \in Slots, tok \in Tokens, r \in RewardIds : BeginRedeem(s, tok, r)
    \/ \E s \in Slots, id \in SubmissionIds : BeginApprove(s, id)
    \/ \E s \in Slots, id \in SubmissionIds, reason \in Reasons :
          BeginReject(s, id, reason)
    \/ \E s \in Slots : Land(s)

\* The document after one user registered, started c2, submitted it, had
\* it approved, started c1 and submitted it: a balance to spend and a
\* submission to review are there when the overlapping requests begin.
SeedToken == [kind |-> "ok", id |-> 1]
SeedData ==
    LET d1 == registerHandler(InitialData, <<"b">>, <<"x">>, Secret, 1).doc
        d2 == startHandler(d1, SeedToken, "c2", 0).doc
        d3 == submitHandler(d2, SeedToken, <<"img1">>, 0, 2).doc
        d4 == approveHandler(d3, 2, 0).doc
        d5 == startHandler(d4, SeedToken, "c1", 0).doc
    IN submitHandler(d5, SeedToken, <<"img1">>, 0, 3).doc

InitConc ==
    /\ store = SeedData
    /\ now = 0
    /\ nextId = 3
    /\ issued = {1}
    /\ writes = 0
    /\ prev = SeedData
    /\ last = NoRequest
    /\ pend = [s \in Slots |-> <<>>]
    /\ landed = <<>>
    /\ disk = "ok"
    /\ budget = MaxConcWrites

SpecConc == InitConc /\ [][NextConc]_vars

----------------------------------------------------------------------------
(* SpecAuth: the token gate and the views of a user.  The requests carry   *)
(* a token the server signed, no token, or a token jwt.verify rejects.     *)

Login(body, lang) ==
    Serve("login", NoToken, [body |-> body, lang |-> lang],
          loginHandler(Loaded, body.username, body.password, lang))

GetUser(tok, lang) ==
    Serve("getUser", tok, lang, getUserHandler(Loaded, tok, lang))

UpdateProfile(tok, bio) ==
    Serve("updateProfile", tok, bio, updateProfileHandler(Loaded, tok, bio))

Support(tok, message) ==
    Serve("support", tok, message,
          supportHandler(Loaded, tok, message, now, nextId + 1))

AdminUsers ==
    Serve("adminUsers", NoToken, <<>>, adminUsersHandler(Loaded))

AdminUser(userId) ==
    Serve("adminUser", NoToken, userId, adminUserHandler(Loaded, userId))

AnyToken == Tokens \cup {NoToken, BadToken}

\* the :userId of the admin routes: the users there are, and one there is not
UserIds == {store.users[i].id : i \in 1..Len(store.users)} \cup {0}

InitAuth ==
    /\ store = InitialData
    /\ now = 0
    /\ nextId = 0
    /\ issued = {}
    /\ writes = 0
    /\ prev = InitialData
    /\ last = NoRequest
    /\ pend = [s \in Slots |-> <<>>]
    /\ landed = <<>>
    /\ disk = "ok"
    /\ budget = MaxAuthWrites

NextAuth ==
    \/ \E b \in RegisterBodies : Register(b.username, b.email, b.password)
    \/ \E b \in LoginBodies, lang \in Langs : Login(b, lang)
    \/ \E tok \in AnyToken, lang \in Langs : GetUser(tok, lang)
    \/ \E tok \in AnyToken, bio \in Bios : UpdateProfile(tok, bio)
    \/ \E tok \in AnyToken, c \in ChallengeIds : Start(tok, c)
    \/ \E tok \in AnyToken : Cancel(tok)
    \/ \E tok \in AnyToken, f \in {<<>>} \cup {<<x>> : x \in Files} : Submit(tok, f)
    \/ \E tok \in AnyToken, r \in RewardIds : Redeem(tok, r)
    \/ \E tok \in AnyToken, m \in Messages : Support(tok, m)
    \/ AdminUsers
    \/ \E userId \in UserIds : AdminUser(userId)

SpecAuth == InitAuth /\ [][NextAuth]_vars

----------------------------------------------------------------------------
(* SpecStore: data.json is lost or damaged between two requests (a deploy  *)
(* that starts from an empty disk, a write cut short).  store keeps what   *)
(* the file held; nothing can read it until a writeData puts a document    *)
(* there again.                                                            *)

GetChallenges(lang) ==
    Serve("getChallenges", NoToken, lang, challengesHandler(Loaded, lang))

\* data.json is removed: readFile throws ENOENT
Lose ==
    /\ disk # "missing"
    /\ disk' = "missing"
    /\ UNCHANGED <<store, now, nextId, issued, writes, prev, last, pend, landed,
                   budget>>

\* data.json no longer parses: JSON.parse throws
Garble ==
    /\ disk = "ok"
    /\ disk' = "corrupt"
    /\ UNCHANGED <<store, now, nextId, issued, writes, prev, last, pend, landed,
                   budget>>

InitStore ==
    /\ store = InitialData
    /\ now = 0
    /\ nextId = 0
    /\ issued = {}
    /\ writes = 0
    /\ prev = InitialData
    /\ last = NoRequest
    /\ pend = [s \in Slots |-> <<>>]
    /\ landed = <<>>
    /\ disk = "ok"
    /\ budget = MaxStoreWrites

\* the requests of SpecStore
RequestStore ==
    \/ \E b \in RegisterBodies : Register(b.username, b.email, b.password)
    \/ \E lang \in Langs : GetChallenges(lang)
    \/ \E tok \in AnyToken, lang \in Langs : GetUser(tok, lang)
    \/ \E tok \in AnyToken, c \in ChallengeIds : Start(tok, c)

NextStore == RequestStore \/ Lose \/ Garble

SpecStore == InitStore /\ [][NextStore]_vars

----------------------------------------------------------------------------
(* SpecTickets: the support conversation of the users and the admin *)

Reply(userId, message) ==
    Serve("reply", NoToken, [userId |-> userId, message |-> message],
          replyHandler(Loaded, userId, message, now, nextId + 1))

MarkRead(ticketIds) ==
    Serve("markRead", NoToken, ticketIds, markReadHandler(Loaded, ticketIds))

GetTickets(userId) ==
    Serve("getTickets", NoToken, userId, ticketsHandler(Loaded, userId))

\* the ticketIds fields of the bodies POSTed to /api/admin/tickets/read: none,
\* an id no ticket has, the id of one ticket, the ids of all the tickets
\* followed by an id no ticket has
TicketIdLists ==
    {<<>>, <<<<0>>>>}
    \cup {<<<<store.supportTickets[i].id>>>> : i \in 1..Len(store.supportTickets)}
    \cup {<<[i \in 1..(Len(store.supportTickets) + 1) |->
               IF i <= Len(store.supportTickets)
               THEN store.supportTickets[i].id ELSE 0]>>}

InitTickets ==
    /\ store = InitialData
    /\ now = 0
    /\ nextId = 0
    /\ issued = {}
    /\ writes = 0
    /\ prev = InitialData
    /\ last = NoRequest
    /\ pend = [s \in Slots |-> <<>>]
    /\ landed = <<>>
    /\ disk = "ok"
    /\ budget = MaxTicketWrites

NextTickets ==
    \/ \E b \in RegisterBodies : Register(b.username, b.email, b.password)
    \/ \E tok \in Tokens, bio \in Bios : UpdateProfile(tok, bio)
    \/ \E tok \in Tokens, m \in Messages : Support(tok, m)
    \/ \E userId \in UserIds, m \in Messages : Reply(userId, m)
    \/ \E ids \in TicketIdLists : MarkRead(ids)
    \/ \E userId \in UserIds : GetTickets(userId)
    \/ Tick

SpecTickets == InitTickets /\ [][NextTickets]_vars

----------------------------------------------------------------------------
(* SpecTranslate: translateItem as a function of any item.  A JavaScript   *)
(* value is a record of its type t, its text s (of a string) and its own   *)
(* properties o (of an object), a set of <<key, text>> pairs.              *)

Null == [t |-> "null", s |-> "", o |-> {}]
Undefined == [t |-> "undefined", s |-> "", o |-> {}]
Str(text) == [t |-> "string", s |-> text, o |-> {}]
Obj(props) == [t |-> "object", s |-> "", o |-> props]

\* the values of the fields of the items
FieldValues ==
    { Null, Str("c1"), Str(""),
      Obj({<<"ar", "A">>, <<"en", "E">>}), Obj({<<"ar", "A">>}),
      Obj({<<"en", "E">>}), Obj({<<"fr", "F">>, <<"en", "E">>}), Obj({}) }

\* the items: null, or an object with the fields id and name
Items == {<<>>} \cup {<<i>> : i \in [{"id", "name"} -> FieldValues]}

\* the Accept-Language headers: none, or a string
Headers ==
    { <<>>, <<<<>>>>, <<<<"e">>>>, <<<<"e", "n">>>>, <<<<"E", "N">>>>,
      <<<<"e", "n", "-", "U", "S">>>>, <<<<"a", "r">>>>,
      <<<<"x", "e", "n">>>>, <<<<"f", "r", ",", "e", "n">>>> }

\* value[key] of an object value: undefined when it has no such property
Property(value, key) ==
    IF \E p \in value.o : p[1] = key
    THEN Str((CHOOSE p \in value.o : p[1] = key)[2])
    ELSE Undefined

\* translateItem translating only the fields that have both languages
translateItem_BothOnly(item, lang) ==
    IF item = <<>> THEN <<>>
    ELSE <<[key \in DOMAIN item[1] |->
              IF /\ item[1][key].t = "object"
                 /\ Property(item[1][key], "ar") # Undefined
                 /\ Property(item[1][key], "en") # Undefined
              THEN Property(item[1][key], targetLang(lang))
              ELSE item[1][key]]>>

\* translateItem: null for a falsy item; else a copy where every field
\* whose value is an object with a property ar is that object's property
\* of the target language
translateItem(item, lang) ==
    IF item = <<>> THEN <<>>
    ELSE <<[key \in DOMAIN item[1] |->
              IF /\ item[1][key].t = "object"
                 /\ Property(item[1][key], "ar") # Undefined
              THEN Property(item[1][key], targetLang(lang))
              ELSE item[1][key]]>>

\* a call of translateItem and what it returned
Translate(item, lang) ==
    /\ last' = Response("translateItem", NoToken, [item |-> item, lang |-> lang],
                        now, disk, 0, Json(store, translateItem(item, lang)))
    /\ UNCHANGED <<store, now, nextId, issued, writes, prev, pend, landed, disk,
                   budget>>

InitTranslate ==
    /\ store = InitialData
    /\ now = 0
    /\ nextId = 0
    /\ issued = {}
    /\ writes = 0
    /\ prev = InitialData
    /\ last = NoRequest
    /\ pend = [s \in Slots |-> <<>>]
    /\ landed = <<>>
    /\ disk = "ok"
    /\ budget = 0

NextTranslate == \E item \in Items, lang \in Headers : Translate(item, lang)

SpecTranslate == InitTranslate /\ [][NextTranslate]_vars

----------------------------------------------------------------------------
(* SpecFail: a writeData call throws.  fs.writeFile opens data.json with   *)
(* the flag 'w', which truncates it, and then writes the text: a call that *)
(* fails at the open (EACCES, EROFS, EMFILE) leaves the file as it was, a  *)
(* call that fails after it (ENOSPC, EIO) leaves a file cut short, which   *)
(* no longer parses.  Every handler awaits writeData inside its try, so    *)
(* the throw reaches its catch.                                            *)

\* what a failed writeFile leaves of the file
WriteFailures == {"intact", "cut"}

\* the catch of a handler: res.status(500).json({message})
Thrown(d) == Fail(d, 500, "serverError")

\* a handler whose k-th writeData call throws (the first is the one of
\* readData when the file was missing or damaged); the calls before it
\* went through
ServeFailing(op, tok, arg, r, k, left) ==
    /\ r.read
    /\ k \in 1..WriteCalls(r)
    /\ LET reinitialized == readData.write /\ k = 2
           inHandler == r.write /\ k = WriteCalls(r)
       IN /\ store' = IF reinitialized THEN defaultData ELSE store
          /\ disk' = IF left = "cut" THEN "corrupt"
                     ELSE IF reinitialized THEN "ok" ELSE disk
          /\ nextId' = nextId + (IF inHandler THEN Uuids(op, r) ELSE 0)
    /\ prev' = Loaded
    /\ last' = Response(op, tok, arg, now, disk, k, Thrown(Loaded))
    /\ writes' = writes + k
    /\ writes' <= budget
    /\ UNCHANGED <<now, issued, pend, landed, budget>>

InitFail ==
    /\ store = SeedData
    /\ now = 0
    /\ nextId = 3
    /\ issued = {1}
    /\ writes = 0
    /\ prev = SeedData
    /\ last = NoRequest
    /\ pend = [s \in Slots |-> <<>>]
    /\ landed = <<>>
    /\ disk = "ok"
    /\ budget = MaxFailWrites

\* the requests of SpecFail whose writes go through
RequestDone ==
    \/ \E b \in RegisterBodies : Register(b.username, b.email, b.password)
    \/ \E lang \in Langs : GetChallenges(lang)
    \/ \E tok \in Tokens, r \in RewardIds : Redeem(tok, r)
    \/ \E id \in SubmissionIds : Approve(id)

\* the same requests with a writeData call that throws
RequestFailing ==
    \E k \in {1, 2}, left \in WriteFailures :
       \/ \E b \in RegisterBodies :
             ServeFailing("register", NoToken,
                          [username |-> b.username, email |-> b.email,
                           password |-> b.password],
                          registerHandler(Loaded, b.username, b.email,
                                          b.password, nextId + 1),
                          k, left)
       \/ \E lang \in Langs :
             ServeFailing("getChallenges", NoToken, lang,
                          challengesHandler(Loaded, lang), k, left)
       \/ \E tok \in Tokens, r \in RewardIds :
             ServeFailing("redeem", tok, r,
                          redeemHandler(Loaded, tok, r, now), k, left)
       \/ \E id \in SubmissionIds :
             ServeFailing("approve", NoToken, id,
                          approveHandler(Loaded, id, now), k, left)

NextFail == RequestDone \/ RequestFailing \/ Lose

SpecFail == InitFail /\ [][NextFail]_vars

----------------------------------------------------------------------------
(* SpecFrame: the requests of two logged-in users, one after another, on a *)
(* document where the first has points, an approved and a pending          *)
(* submission and a message to the support, and the second has just        *)
(* registered.                                                             *)

SeedFrame ==
    LET d1 == supportHandler(SeedData, SeedToken, <<<<"h", "i">>>>, 0, 4).doc
    IN registerHandler(d1, <<"a">>, <<"y">>, Secret, 5).doc

InitFrame ==
    /\ store = SeedFrame
    /\ now = 0
    /\ nextId = 5
    /\ issued = {1, 5}
    /\ writes = 0
    /\ prev = SeedFrame
    /\ last = NoRequest
    /\ pend = [s \in Slots |-> <<>>]
    /\ landed = <<>>
    /\ disk = "ok"
    /\ budget = MaxFrameWrites

NextFrame ==
    \/ \E tok \in Tokens, bio \in Bios : UpdateProfile(tok, bio)
    \/ \E tok \in Tokens, c \in ChallengeIds : Start(tok, c)
    \/ \E tok \in Tokens : Cancel(tok)
    \/ \E tok \in Tokens, f \in {<<>>} \cup {<<x>> : x \in Files} : Submit(tok, f)
    \/ \E tok \in Tokens, r \in RewardIds : Redeem(tok, r)
    \/ \E tok \in Tokens, m \in Messages : Support(tok, m)
    \/ Tick

SpecFrame == InitFrame /\ [][NextFrame]_vars

----------------------------------------------------------------------------
(* Properties.  prev is the document the last answered request read and    *)
(* store the document after it; in Spec nothing happens in between.        *)

HasUser(d, uid) == UserIndex(d, uid) # 0
UserOf(d, uid) == d.users[UserIndex(d, uid)]
SubmissionIndex(d, id) == FindIndex({i \in 1..Len(d.submissions) : d.submissions[i].id = id})
HasSubmission(d, id) == SubmissionIndex(d, id) # 0
SubmissionOf(d, id) == d.submissions[SubmissionIndex(d, id)]
HasChallenge(d, cid) == \E i \in 1..Len(d.challenges) : d.challenges[i].id = cid
ChallengeOf(d, cid) ==
    d.challenges[CHOOSE i \in 1..Len(d.challenges) : d.challenges[i].id = cid]
HasReward(d, rid) == \E i \in 1..Len(d.rewards) : d.rewards[i].id = rid
CostOf(d, rid) ==
    d.rewards[CHOOSE i \in 1..Len(d.rewards) : d.rewards[i].id = rid].cost

\* the request was made by a logged-in user whose record prev holds
ByUser(op) == last.op = op /\ last.tok.kind = "ok" /\ HasUser(prev, last.tok.id)

RECURSIVE Sum(_)
Sum(seq) == IF seq = <<>> THEN 0 ELSE Head(seq) + Sum(Tail(seq))

\* the rewards of the submissions of user uid that were ever approved
Earned(d, uid) ==
    Sum([i \in 1..Len(d.submissions) |->
            IF d.submissions[i].userId = uid /\ d.submissions[i].pointsAwarded # -1
            THEN d.submissions[i].challenge.reward ELSE 0])

\* the cost of what user u redeemed
Spent(d, u) ==
    Sum([i \in 1..Len(u.redeemedRewards) |-> CostOf(d, u.redeemedRewards[i].id)])

\* C1: for every submission, the owner's points are credited with its
\* challenge.reward at most once, whatever approve and reject calls are
\* made: what a user was credited in all (the balance plus what was spent)
\* never exceeds the rewards of their approved submissions, each counted once.
C1_CreditedAtMostOnce ==
    \A i \in 1..Len(store.users) :
        store.users[i].points + Spent(store, store.users[i])
            <= Earned(store, store.users[i].id)

\* C2: a resolved submission is terminal: an approve or reject call on a
\* submission that is already approved or rejected leaves its status and
\* its resolution fields as they were.
C2_ResolvedIsTerminal ==
    (/\ last.op \in {"approve", "reject"}
     /\ LET id == IF last.op = "approve" THEN last.arg ELSE last.arg.id
        IN /\ HasSubmission(prev, id)
           /\ SubmissionOf(prev, id).status \in {"approved", "rejected"})
    => LET id == IF last.op = "approve" THEN last.arg ELSE last.arg.id
       IN SubmissionOf(store, id) = SubmissionOf(prev, id)

\* the approve call was made on a pending submission whose owner exists
ApprovedPending ==
    /\ last.op = "approve"
    /\ HasSubmission(prev, last.arg)
    /\ SubmissionOf(prev, last.arg).status = "pending"
    /\ HasUser(prev, SubmissionOf(prev, last.arg).userId)

\* the document after approving submission id of document d, the fields
\* in processedAt being the resolution time the approval stamps
AfterApprove(d, id, processedAt) ==
    LET si == SubmissionIndex(d, id)
        sub == d.submissions[si]
        ui == UserIndex(d, sub.userId)
    IN [d EXCEPT !.users[ui].points = @ + sub.challenge.reward,
                 !.users[ui].completedChallenges = Append(@, sub.challenge.id),
                 !.submissions[si].status = "approved",
                 !.submissions[si].pointsAwarded = sub.challenge.reward,
                 !.submissions[si].processedAt = processedAt]

ApproveUnknown ==
    (last.op = "approve" /\ ~HasSubmission(prev, last.arg))
    => (last.status = 404 /\ store = prev)

\* C3 as stated: approving a pending submission whose owner exists adds the
\* reward to the owner's points, appends the challenge id to the owner's
\* completedChallenges, sets status 'approved' and pointsAwarded, and
\* changes nothing else; an unknown id gives 404 and changes nothing.
C3_ApproveAsStated ==
    /\ ApprovedPending =>
          /\ last.status = 200
          /\ store = AfterApprove(prev, last.arg,
                                  SubmissionOf(prev, last.arg).processedAt)
    /\ ApproveUnknown

\* C3 amended: as stated, and the approval also sets the submission's
\* processedAt to the time of the call; nothing else changes.
C3_Approve ==
    /\ ApprovedPending =>
          /\ last.status = 200
          /\ store = AfterApprove(prev, last.arg, last.at)
    /\ ApproveUnknown

C3_Witness ==
    /\ ApprovedPending
    /\ last.status = 200
    /\ Len(store.users) = 2

\* C4: redeeming a reward when user.points < reward.cost fails with
\* InsufficientBalance (400) and leaves the whole document unchanged.
C4_InsufficientBalance ==
    (/\ ByUser("redeem")
     /\ HasReward(prev, last.arg)
     /\ UserOf(prev, last.tok.id).points < CostOf(prev, last.arg))
    => /\ last.status = 400
       /\ last.msg = "insufficientPoints"
       /\ store = prev

C4_Witness ==
    /\ ByUser("redeem")
    /\ HasReward(prev, last.arg)
    /\ UserOf(prev, last.tok.id).points = 1
    /\ last.status = 400

\* C5: redeeming an existing reward when user.points >= reward.cost takes
\* exactly reward.cost from the user's points, appends exactly one record
\* (the reward id, a code built from reward id, user id and timestamp) at
\* the end of redeemedRewards, and returns the new stored balance.
C5_Redeem ==
    (/\ ByUser("redeem")
     /\ HasReward(prev, last.arg)
     /\ UserOf(prev, last.tok.id).points >= CostOf(prev, last.arg))
    => LET before == UserOf(prev, last.tok.id)
           after == UserOf(store, last.tok.id)
           n == Len(before.redeemedRewards)
       IN /\ last.status = 200
          /\ after.points = before.points - CostOf(prev, last.arg)
          /\ Len(after.redeemedRewards) = n + 1
          /\ SubSeq(after.redeemedRewards, 1, n) = before.redeemedRewards
          /\ after.redeemedRewards[n + 1].id = last.arg
          /\ after.redeemedRewards[n + 1].qrCodeData =
                 <<"REWARD", last.arg, "USER", last.tok.id, last.at>>
          /\ last.body[1].qrCode = after.redeemedRewards[n + 1].qrCodeData
          /\ last.body[1].remainingPoints = after.points

C5_Witness ==
    /\ ByUser("redeem")
    /\ last.status = 200
    /\ UserOf(prev, last.tok.id).points >= CostOf(prev, last.arg)
    /\ UserOf(store, last.tok.id).points = 0

\* C6: in every stored document, under any interleaving of the requests,
\* every user's points are a non-negative integer.
C6_PointsNonNegative ==
    \A i \in 1..Len(store.users) : store.users[i].points \in Nat

\* two redeem requests read the same balance; one has been written, the
\* other is still to land
C6_Witness ==
    /\ last.op = "redeem"
    /\ last.status = 200
    /\ \E s \in Slots :
          /\ pend[s] # <<>>
          /\ pend[s][1].op = "redeem"
          /\ pend[s][1].read = prev

\* the start request was made while the user's slot was occupied
StartedWhileOccupied ==
    /\ ByUser("start")
    /\ UserOf(prev, last.tok.id).activeChallenge # <<>>

C8_EmptySlot ==
    (/\ (ByUser("cancel") \/ ByUser("submit"))
     /\ UserOf(prev, last.tok.id).activeChallenge = <<>>)
    => /\ last.status = 400
       /\ store.submissions = prev.submissions
       /\ store = prev

C8_Witness ==
    /\ ByUser("submit")
    /\ last.arg # <<>>
    /\ UserOf(prev, last.tok.id).activeChallenge = <<>>
    /\ last.status = 400
    /\ Len(prev.submissions) = 1

\* C9: the active-challenge slot follows its state machine: start on an
\* empty slot with an existing challenge id fills it with a snapshot of
\* the challenge plus startedAt; cancel on an occupied slot empties it and
\* creates no submission; submit on an occupied slot empties it and appends
\* exactly one submission, pending, owned by the requester, whose challenge
\* is the snapshot that was active.
C9_StartFills ==
    (/\ ByUser("start")
     /\ UserOf(prev, last.tok.id).activeChallenge = <<>>
     /\ HasChallenge(prev, last.arg))
    => LET slot == UserOf(store, last.tok.id).activeChallenge
           c == ChallengeOf(prev, last.arg)
       IN /\ last.status = 200
          /\ Len(slot) = 1
          /\ \A f \in DOMAIN c : slot[1][f] = c[f]
          /\ slot[1].startedAt = last.at
          /\ store.submissions = prev.submissions

C9_CancelEmpties ==
    (/\ ByUser("cancel")
     /\ UserOf(prev, last.tok.id).activeChallenge # <<>>)
    => /\ last.status = 200
       /\ UserOf(store, last.tok.id).activeChallenge = <<>>
       /\ store.submissions = prev.submissions

C9_SubmitEmpties ==
    (/\ ByUser("submit")
     /\ last.arg # <<>>
     /\ UserOf(prev, last.tok.id).activeChallenge # <<>>)
    => LET n == Len(prev.submissions)
       IN /\ last.status = 200
          /\ UserOf(store, last.tok.id).activeChallenge = <<>>
          /\ Len(store.submissions) = n + 1
          /\ SubSeq(store.submissions, 1, n) = prev.submissions
          /\ store.submissions[n + 1].status = "pending"
          /\ store.submissions[n + 1].userId = last.tok.id
          /\ store.submissions[n + 1].challenge =
                 UserOf(prev, last.tok.id).activeChallenge[1]

C9_SlotStateMachine == C9_StartFills /\ C9_CancelEmpties /\ C9_SubmitEmpties

C9_Witness ==
    /\ ByUser("submit")
    /\ last.status = 200
    /\ Len(store.submissions) = 2
    /\ store.submissions[2].challenge.startedAt = 0
    /\ store.submissions[2].submittedAt = 1

\* C10: no two stored users share a username or an email when compared
\* case-insensitively, whatever register calls were made (values with
\* leading or trailing whitespace included).
C10_UniqueUsers ==
    \A i, j \in 1..Len(store.users) :
        i # j =>
            /\ toLowerCase(store.users[i].username)
                   # toLowerCase(store.users[j].username)
            /\ toLowerCase(store.users[i].email)
                   # toLowerCase(store.users[j].email)

----------------------------------------------------------------------------
(* Properties of SpecAuth *)

\* the user a login names is found: the find of loginHandler
LoginFinds(d, username) ==
    \E i \in 1..Len(d.users) :
        toLowerCase(d.users[i].username) = toLowerCase(username)

\* the last request is a login of a username nobody has
LoginUnknownUser ==
    /\ last.op = "login"
    /\ ~LoginFinds(prev, last.arg.body.username)

\* the last request is a login of a user there is, with a password that is
\* not the one the user registered with
LoginWrongPassword ==
    /\ last.op = "login"
    /\ last.arg.body.password # <<>>
    /\ \E i \in 1..Len(prev.users) :
          /\ toLowerCase(prev.users[i].username)
                 = toLowerCase(last.arg.body.username)
          /\ \A j \in 1..(i - 1) :
                 toLowerCase(prev.users[j].username)
                     # toLowerCase(last.arg.body.username)
          /\ prev.users[i].password # bcryptHash(last.arg.body.password[1])

\* C11: a login that fails because the username is unknown and a login that
\* fails because the password is wrong get the same response, status 401
\* with the one message and no body, and both leave the document as it was.
C11_LoginFailuresAlike ==
    (LoginUnknownUser \/ LoginWrongPassword)
    => /\ last.status = 401
       /\ last.msg = "badCredentials"
       /\ last.body = <<>>
       /\ last.wrote = 0
       /\ store = prev

C11_Witness ==
    /\ LoginWrongPassword
    /\ last.status = 401
    /\ store.users # <<>>

\* the routes of a user behind authenticateToken
ProtectedOps ==
    {"getUser", "updateProfile", "start", "cancel", "submit", "redeem", "support"}

\* C12: a request to a protected user route (get user, update profile,
\* start, cancel, submit, redeem, post support message) with no token is
\* answered 401 and one with a token that does not verify 403; the handler
\* body does not run (readData is not called, nothing is written) and the
\* document is unchanged.
C12_TokenGate ==
    (last.op \in ProtectedOps /\ last.tok.kind # "ok")
    => /\ last.status = (IF last.tok.kind = "none" THEN 401 ELSE 403)
       /\ last.body = <<>>
       /\ ~last.read
       /\ last.wrote = 0
       /\ store = prev

C12_Witness ==
    /\ last.op = "updateProfile"
    /\ last.tok = BadToken
    /\ last.arg # <<>>
    /\ last.status = 403
    /\ store.users # <<>>

----------------------------------------------------------------------------
(* Properties of SpecConc *)

\* the last answered request is a write that reached the file
Landed == last.op # "none" /\ last.wrote = 1

\* the handler of the last answered request, run again on a document d
\* (for the routes whose handler draws no uuid)
Replay(d) ==
    CASE last.op = "start" -> startHandler(d, last.tok, last.arg, last.at)
      [] last.op = "cancel" -> cancelHandler(d, last.tok)
      [] last.op = "redeem" -> redeemHandler(d, last.tok, last.arg, last.at)
      [] last.op = "approve" -> approveHandler(d, last.arg, last.at)
      [] last.op = "reject" -> rejectHandler(d, last.arg.id, last.arg.reason)

\* C13: a lost update is reachable.  Every write that lands is answered
\* with success and leaves in the file exactly the document its handler
\* computed from the document it had read, whatever another request wrote
\* in between; so of two overlapping mutating requests that both succeed
\* the file keeps the change of the second writer only (C13_Witness).
C13_LastWriterWins ==
    Landed
    => /\ last.status \in {200, 201}
       /\ landed # <<>>
       /\ last.op \in {"start", "cancel", "redeem", "approve", "reject"}
            => store = Replay(prev).doc

\* an approve and a redeem both read the seeded document; the approve
\* landed and was answered, then the redeem landed over it and was answered
\* 200: the submission is pending again and its reward is not credited
C13_Witness ==
    /\ Landed
    /\ last.op = "redeem" /\ last.status = 200
    /\ prev = SeedData
    /\ SubmissionOf(landed[1], 3).status = "approved"
    /\ UserOf(landed[1], 1).points = 3
    /\ SubmissionOf(store, 3).status = "pending"
    /\ UserOf(store, 1).points = 0
    /\ Len(UserOf(store, 1).redeemedRewards) = 1

----------------------------------------------------------------------------
(* Properties of SpecStore *)

\* C14: readData on a missing or unparsable file writes the empty document
\* to the file and returns it; on a file that parses it returns the content
\* and writes nothing.  Stated of every step that serves a request whose
\* handler calls readData: the unprimed variables are the file before the
\* request, prev' is what readData returned.
C14_ReadData ==
    [][(RequestStore /\ last'.read)
       => IF disk = "ok"
          THEN /\ prev' = store
               /\ last'.wrote <= 1
               /\ last'.op \in {"getChallenges", "getUser"}
                    => /\ last'.wrote = 0
                       /\ writes' = writes
                       /\ store' = store
                       /\ disk' = disk
          ELSE /\ prev' = defaultData
               /\ disk' = "ok"
               /\ last'.wrote >= 1
               /\ writes' = writes + last'.wrote
               /\ last'.op \in {"getChallenges", "getUser"}
                    => /\ last'.wrote = 1
                       /\ store' = defaultData
               /\ last'.op = "getChallenges" /\ last'.status = 200
                    => last'.body = <<>>]_vars

\* the challenges were asked for while the file of a document with a user
\* did not parse: the answer was the empty list and the file is the empty
\* document
C14_Witness ==
    /\ last.op = "getChallenges"
    /\ last.read
    /\ last.found = "corrupt"
    /\ last.wrote = 1
    /\ last.body = <<>>
    /\ issued # {}
    /\ store = defaultData
    /\ disk = "ok"

----------------------------------------------------------------------------
(* Properties of SpecTickets *)

\* C15: a request persists only if it mutated: a request that fails a
\* precondition makes no writeData call, and neither does a request that
\* succeeds and leaves every field of the document as it was (a profile
\* update without a bio, a markRead whose ids match no ticket).
C15_WritesOnlyChanges ==
    last.op # "none"
    => /\ last.status \notin {200, 201} => last.wrote = 0
       /\ store = prev => last.wrote = 0


\* the ids of a ticketIds list
IdsOf(ticketIds) == {ticketIds[i] : i \in 1..Len(ticketIds)}

\* C16: markRead sets the status of every stored ticket whose id is in
\* ticketIds to "read", whatever its status was, ignores the ids that match
\* no ticket and leaves every other ticket, every other field and the rest
\* of the document unchanged; a second markRead with the same ids changes
\* nothing.
C16_MarkRead ==
    (last.op = "markRead" /\ last.arg # <<>>)
    => /\ last.status = 200
       /\ Len(store.supportTickets) = Len(prev.supportTickets)
       /\ \A i \in 1..Len(prev.supportTickets) :
             store.supportTickets[i] =
                 IF prev.supportTickets[i].id \in IdsOf(last.arg[1])
                 THEN [prev.supportTickets[i] EXCEPT !.status = "read"]
                 ELSE prev.supportTickets[i]
       /\ store = [prev EXCEPT !.supportTickets = store.supportTickets]
       /\ markReadHandler(store, last.arg).doc = store

\* an unread message and a reply (read from the start) were both named,
\* with an id no ticket has
C16_Witness ==
    /\ last.op = "markRead"
    /\ last.arg # <<>>
    /\ 0 \in IdsOf(last.arg[1])
    /\ \E i, j \in 1..Len(prev.supportTickets) :
          /\ prev.supportTickets[i].id \in IdsOf(last.arg[1])
          /\ prev.supportTickets[i].status = "unread"
          /\ store.supportTickets[i].status = "read"
          /\ prev.supportTickets[j].id \in IdsOf(last.arg[1])
          /\ prev.supportTickets[j].status = "read"


\* the indices of the tickets of a user in a document, in stored order
TicketIndices(d, userId) ==
    {i \in 1..Len(d.supportTickets) : d.supportTickets[i].userId = userId}

\* C17: listing the tickets of a user returns exactly the tickets whose
\* userId is that user's, the user's messages and the admin's replies
\* alike, each once, in ascending order of creation time, and modifies
\* nothing.
C17_Tickets ==
    last.op = "getTickets"
    => /\ last.status = 200
       /\ Len(last.body) = Cardinality(TicketIndices(prev, last.arg))
       /\ \A i \in TicketIndices(prev, last.arg) :
             \E k \in 1..Len(last.body) : last.body[k] = prev.supportTickets[i]
       /\ \A k \in 1..Len(last.body) : last.body[k].userId = last.arg
       /\ \A k, l \in 1..Len(last.body) :
             k < l => last.body[k].createdAt <= last.body[l].createdAt
       /\ last.wrote = 0
       /\ store = prev

\* the list of a user has the user's message and the admin's later reply
C17_Witness ==
    /\ last.op = "getTickets"
    /\ Len(last.body) = 2
    /\ last.body[1].sender = "user"
    /\ last.body[2].sender = "admin"
    /\ last.body[1].createdAt < last.body[2].createdAt

----------------------------------------------------------------------------
(* Properties of SpecTranslate *)

\* the locale of a header: en when the header is there and its first two
\* characters are a lower-case e and a lower-case n, ar otherwise
LocaleOf(lang) ==
    IF lang = <<>> THEN "ar"
    ELSE IF Len(lang[1]) < 2 THEN "ar"
    ELSE IF lang[1][1] = "e" /\ lang[1][2] = "n" THEN "en"
    ELSE "ar"

\* C18: translateItem(item, header) is null for a null item; otherwise it
\* is a copy of the item, with the same fields, where every top-level field
\* whose value is an object containing the key ar is replaced by that
\* object's value at the resolved locale and every other field is as it
\* was.  The locale is en exactly when the header is present and begins
\* with the case-sensitive prefix en, and ar otherwise.
C18_TranslateItem ==
    last.op = "translateItem"
    => LET item == last.arg.item
           out == last.body
       IN IF item = <<>> THEN out = <<>>
          ELSE /\ out # <<>>
               /\ DOMAIN out[1] = DOMAIN item[1]
               /\ \A key \in DOMAIN item[1] :
                     IF <<"ar", "A">> \in item[1][key].o
                     THEN out[1][key] =
                            Property(item[1][key], LocaleOf(last.arg.lang))
                     ELSE out[1][key] = item[1][key]

\* an item with a name in Arabic only, asked for in English (en-US): the
\* name of the copy is undefined, the id is as it was
C18_Witness ==
    /\ last.op = "translateItem"
    /\ last.arg.lang = <<<<"e", "n", "-", "U", "S">>>>
    /\ last.arg.item # <<>>
    /\ last.arg.item[1].name = Obj({<<"ar", "A">>})
    /\ last.body[1].name = Undefined
    /\ last.body[1].id = last.arg.item[1].id

----------------------------------------------------------------------------
(* Further properties of Spec *)

\* C19: completedChallenges is a set: no user's completedChallenges holds a
\* challenge id more than once, however often the user joins, submits and
\* is approved for the same challenge.
C19_CompletedIsSet ==
    \A u \in 1..Len(store.users) :
        \A i, j \in 1..Len(store.users[u].completedChallenges) :
            i # j => store.users[u].completedChallenges[i]
                         # store.users[u].completedChallenges[j]

----------------------------------------------------------------------------
(* Further properties of SpecAuth *)

\* the user views of the last response: the user objects it carries
UserViews ==
    IF last.status \notin {200, 201} THEN {}
    ELSE IF last.op \in {"register", "login"} THEN {last.body[1].user}
    ELSE IF last.op \in {"getUser", "updateProfile", "adminUser"}
    THEN {last.body[1]}
    ELSE IF last.op = "adminUsers"
    THEN {last.body[i] : i \in 1..Len(last.body)}
    ELSE {}

\* the values a password hash could be found under in a view
ValuesOf(view) == {view[f] : f \in (DOMAIN view) \cap {"password", "username", "email"}}

\* C20: no user view returned by register, login, get user, update profile,
\* the admin user list or the admin user detail carries the stored password
\* hash: it has no field password, and none of its text fields is the hash
\* of a stored user.  The stored password of a user is never the plaintext
\* the user registered with.
C20_NoPasswordInViews ==
    /\ \A view \in UserViews :
          /\ "password" \notin DOMAIN view
          /\ \A u \in 1..Len(store.users) :
                 store.users[u].password \notin ValuesOf(view)
    /\ (last.op = "register" /\ last.status = 201)
         => /\ store.users[Len(store.users)].password # last.arg.password
            /\ store.users[Len(store.users)].password
                   = bcryptHash(last.arg.password)
    /\ \A u \in 1..Len(store.users), b \in RegisterBodies :
          store.users[u].password # b.password

\* the admin's list of two registered users, one of them in a challenge
C20_Witness ==
    /\ last.op = "adminUsers"
    /\ Cardinality(UserViews) = 2
    /\ \E view \in UserViews : view.activeChallenge # <<>>

----------------------------------------------------------------------------
(* Properties of SpecFail *)

\* C21: when the read-and-reinitialize of readData or the write of a
\* handler fails during a request, the request is answered 500, never with
\* success, and the stored document is left as it was before the request.
\* Stated of every step in which a writeData call throws: the unprimed
\* variables are the file before the request.
C21_FailureLeavesDocument ==
    [][RequestFailing
       => /\ last'.status = 500
          /\ last'.body = <<>>
          /\ store' = store
          /\ disk' = disk]_vars

----------------------------------------------------------------------------
(* Conservation and frame, properties of Spec *)

\* the pointsAwarded of the submissions of user uid whose status is approved
Awarded(d, uid) ==
    Sum([i \in 1..Len(d.submissions) |->
            IF d.submissions[i].userId = uid /\ d.submissions[i].status = "approved"
            THEN d.submissions[i].pointsAwarded ELSE 0])

\* C22: points are conserved: in every document reachable by requests made
\* one after another, each user's points equal the sum of pointsAwarded
\* over the user's approved submissions minus the sum of the costs of the
\* rewards of the user's redeemedRewards records.
C22_PointsConserved ==
    \A i \in 1..Len(store.users) :
        store.users[i].points =
            Awarded(store, store.users[i].id) - Spent(store, store.users[i])

----------------------------------------------------------------------------
(* Properties of SpecFrame *)

\* the routes of a user that may write
UserWrites == {"updateProfile", "start", "cancel", "submit", "redeem", "support"}

\* C23: an authenticated user request (update profile, start, cancel,
\* submit, redeem, post support message) served on its own changes only
\* the record of the user of the token and, for submit and post support
\* message, appends one submission or one ticket owned by that user; the
\* records of the other users, the submissions and tickets there were, and
\* the challenges, rewards and faq are as before.
C23_Frame ==
    (last.op \in UserWrites /\ last.tok.kind = "ok")
    => LET nSub == Len(prev.submissions)
           nTic == Len(prev.supportTickets)
       IN /\ Len(store.users) = Len(prev.users)
          /\ \A i \in 1..Len(prev.users) :
                /\ store.users[i].id = prev.users[i].id
                /\ prev.users[i].id # last.tok.id
                     => store.users[i] = prev.users[i]
          /\ store.challenges = prev.challenges
          /\ store.rewards = prev.rewards
          /\ store.faq = prev.faq
          /\ IF last.op = "submit" /\ last.status = 200
             THEN /\ Len(store.submissions) = nSub + 1
                  /\ SubSeq(store.submissions, 1, nSub) = prev.submissions
                  /\ store.submissions[nSub + 1].userId = last.tok.id
             ELSE store.submissions = prev.submissions
          /\ IF last.op = "support" /\ last.status = 200
             THEN /\ Len(store.supportTickets) = nTic + 1
                  /\ SubSeq(store.supportTickets, 1, nTic) = prev.supportTickets
                  /\ store.supportTickets[nTic + 1].userId = last.tok.id
             ELSE store.supportTickets = prev.supportTickets

\* the second user submitted a challenge: one more submission, theirs, and
\* the first user's record, with its points, is as it was
C23_Witness ==
    /\ ByUser("submit")
    /\ last.tok.id = 5
    /\ last.status = 200
    /\ Len(store.submissions) = Len(prev.submissions) + 1
    /\ UserOf(store, 5) # UserOf(prev, 5)
    /\ UserOf(store, 1) = UserOf(prev, 1)
    /\ UserOf(store, 1).points = 2

====
